---- MODULE Spec2Model ----
(***************************************************************************)
(* Model of the event dispatch handlers of the InnoDB Cluster operator     *)
(* (mysqloperator/controller/innodbcluster/operator_cluster.py) for ONE    *)
(* cluster.  Every handler invocation runs on a thread; a handler is cut   *)
(* into steps at its API calls, its controller hook calls and its mutex    *)
(* acquisitions, so that invocations interleave where the code can.        *)
(* Each invocation keeps a log of the effects it has made (create          *)
(* requests, patches, hook calls, diagnostics), each tagged with whether   *)
(* the invocation held the cluster mutex when it made it.                  *)
(***************************************************************************)
EXTENDS Integers, Sequences, FiniteSets, TLC

VARIABLES
    createTime,     \* the cluster has a create-time (cluster.get_create_time())
    clusterState,   \* "live" | "deleting" | "gone"
    objs,           \* the dependent objects that exist
    operatorVersion,\* the operator-version tag stamped on the cluster
    status,         \* status.cluster of the cluster resource
    monitored,      \* the cluster is in g_group_monitor's monitored set
    mutex,          \* holder of the ClusterMutex: "free" or a thread
    eps,            \* g_ephemeral_pod_state: pod -> recorded "mysql-restarts"
    restarts,       \* pod -> restart counter of its mysql container
    stsReplicas,    \* spec.replicas of the stateful set
    routerReplicas, \* size of the router deployment
    nBootstrap,     \* times on_first_cluster_pod_created has run
    nMonitorStart,  \* times g_group_monitor.monitor_cluster has run
    inv             \* thread -> the handler invocation it runs

vars == <<createTime, clusterState, objs, operatorVersion, status, monitored,
          mutex, eps, restarts, stsReplicas, routerReplicas, nBootstrap,
          nMonitorStart, inv>>

(***************************************************************************)
(* Bounds                                                                  *)
(***************************************************************************)
\* pods have ordinals 0..MaxOrdinal
MaxOrdinal == 1
\* spec values (instance counts, versions, images, schedules) are 0..MaxVal
MaxVal == 2
\* the restart counter of a mysql container is 0..MaxRestarts
MaxRestarts == 1
\* counters of hook calls saturate at CountCap
CountCap == 2

Threads == {"T1", "T2"}
Pods == 0..MaxOrdinal
Values == 0..MaxVal
NoPod == -1
NoCount == -1

(***************************************************************************)
(* Constants of the program                                                *)
(***************************************************************************)
DEFAULT_OPERATOR_VERSION_TAG == "operator-version-tag"
NoTag == "none"
\* delay of the TemporaryError raised by on_pod_create and the backup handler
DelayNotReady == 10
\* delay of the TemporaryError raised by on_pod_event on an UNKNOWN probe
DelayUnknown == 15

\* ObjOrder with the cluster service created before the router account
ObjOrder_Swapped == <<"initconf", "private_secrets", "service", "router_account",
                      "stateful_set", "disruption_budget", "router_service",
                      "router_deployment", "backup_account">>

\* The dependent objects, in the order on_innodbcluster_create handles them.
ObjOrder == <<"initconf", "private_secrets", "router_account", "service",
              "stateful_set", "disruption_budget", "router_service",
              "router_deployment", "backup_account">>

Objects == {ObjOrder[i] : i \in 1..Len(ObjOrder)}

NoStatus == [status |-> "NONE", onlineInstances |-> 0]
\* the value on_innodbcluster_create passes to cluster.set_status
PendingStatus == [status |-> "PENDING", onlineInstances |-> 0]
OnlineStatus == [status |-> "ONLINE", onlineInstances |-> 1]
UnknownStatus == [status |-> "UNKNOWN", onlineInstances |-> 0]

(***************************************************************************)
(* Invocations                                                             *)
(***************************************************************************)
IdleInv ==
    [kind |-> "idle", pc |-> "idle", out |-> "none", delay |-> 0, log |-> <<>>,
     valid |-> TRUE, old |-> 0, new |-> 0, rtr |-> 0, ct |-> FALSE,
     idx |-> 0, pod |-> NoPod, pdel |-> FALSE, conf |-> FALSE,
     phase |-> "Running", minfo |-> FALSE, cready |-> FALSE, rst |-> 0,
     evt |-> "", cexists |-> TRUE, cdel |-> FALSE, nhook |-> 0,
     rec |-> NoCount,
     pre |-> [objs |-> {}, operatorVersion |-> NoTag, status |-> NoStatus]]

Idle(t) == inv[t].kind = "idle"

\* One effect of an invocation, as it is logged.
Effect(t, op, tgt, val) ==
    [op |-> op, tgt |-> tgt, val |-> val, locked |-> (mutex = t)]

Logged(t, op, tgt, val) == Append(inv[t].log, Effect(t, op, tgt, val))

\* The invocation on t ends with outcome out ("ok", "error", "temporary",
\* "assert") and, for a TemporaryError, its delay.
Ended(r, out, delay) == [r EXCEPT !.pc = "done", !.out = out, !.delay = delay]

Set(t, r) == inv' = [inv EXCEPT ![t] = r]

\* cluster.ready, of a cluster whose create-time is ct (set or not)
Ready(ct) == ct

\* The handler has returned or raised: the thread takes the next event.
Return(t) ==
    /\ inv[t].pc = "done"
    /\ Set(t, IdleInv)
    /\ UNCHANGED <<createTime, clusterState, objs, operatorVersion, status,
                   monitored, mutex, eps, restarts, stsReplicas,
                   routerReplicas, nBootstrap, nMonitorStart>>

(***************************************************************************)
(* on_innodbcluster_create                                                 *)
(***************************************************************************)
\* the platform invokes the create handler with the cluster's body
OnClusterCreate_Invoke(t, valid, rtr) ==
    /\ Idle(t)
    /\ clusterState = "live"
    /\ Set(t, [IdleInv EXCEPT !.kind = "create", !.pc = "parse",
                              !.valid = valid, !.rtr = rtr,
                              !.ct = createTime,
                              !.pre = [objs |-> objs,
                                       operatorVersion |-> operatorVersion,
                                       status |-> status]])
    /\ UNCHANGED <<createTime, clusterState, objs, operatorVersion, status,
                   monitored, mutex, eps, restarts, stsReplicas,
                   routerReplicas, nBootstrap, nMonitorStart>>

\* CreateParsed without the validation of the spec
CreateParsed_NoValidation(t, r) ==
    IF Ready(r.ct) THEN Ended(r, "ok", 0)
    ELSE [r EXCEPT !.pc = "objects", !.idx = 1]

\* parse_spec and validate; then the test of cluster.ready
CreateParsed(t, r) ==
    IF ~r.valid
    THEN Ended([r EXCEPT !.log = Logged(t, "error", "InvalidArgument", 0)],
               "temporary", 0)
    ELSE IF Ready(r.ct) THEN Ended(r, "ok", 0)
    ELSE [r EXCEPT !.pc = "objects", !.idx = 1]

OnClusterCreate_Parse(t) ==
    /\ inv[t].kind = "create" /\ inv[t].pc = "parse"
    /\ Set(t, CreateParsed(t, inv[t]))
    /\ UNCHANGED <<createTime, clusterState, objs, operatorVersion, status,
                   monitored, mutex, eps, restarts, stsReplicas,
                   routerReplicas, nBootstrap, nMonitorStart>>

\* ignore_404(get): TRUE when the lookup returns an object, FALSE on a 404
Ignore404Found(o) == o \in objs

\* MustCreate without the lookup: create whatever exists
MustCreate_NoLookup(i, rtr) == ObjOrder[i] = "router_deployment" => rtr > 0

\* the step submits a create request for object number i
MustCreate(i, rtr) ==
    /\ ~Ignore404Found(ObjOrder[i])
    /\ (ObjOrder[i] = "router_deployment" => rtr > 0)

\* after step i: the next step, or the stamping of the version
AfterObject(r) ==
    IF r.idx = Len(ObjOrder) THEN [r EXCEPT !.pc = "stamp"]
    ELSE [r EXCEPT !.idx = r.idx + 1]

\* CreateFailed with the error swallowed: warn and go on
CreateFailed_Swallowed(t, r) ==
    AfterObject([r EXCEPT !.log = Logged(t, "warn", "CreateResourceFailed", 0)])

\* the except clause of the creation steps: warn and re-raise
CreateFailed(t, r) ==
    Ended([r EXCEPT !.log = Logged(t, "warn", "CreateResourceFailed", 0)],
          "error", 0)

\* One creation step: the lookup, and the create request if nothing is found.
\* lookup and create say whether the API call fails ("fail") or not ("ok").
OnClusterCreate_Object(t, lookup, create) ==
    /\ inv[t].kind = "create" /\ inv[t].pc = "objects"
    /\ LET r == inv[t]
           o == ObjOrder[r.idx]
       IN \/ /\ lookup = "fail" /\ create = "ok"
             /\ Set(t, CreateFailed(t, r))
             /\ objs' = objs
          \/ /\ lookup = "ok" /\ create = "ok"
             /\ ~MustCreate(r.idx, r.rtr)
             /\ Set(t, AfterObject(r))
             /\ objs' = objs
          \/ /\ lookup = "ok" /\ create = "ok"
             /\ MustCreate(r.idx, r.rtr)
             /\ Set(t, AfterObject([r EXCEPT !.log = Logged(t, "create", o, 0)]))
             /\ objs' = objs \cup {o}
          \/ /\ lookup = "ok" /\ create = "fail"
             /\ MustCreate(r.idx, r.rtr)
             /\ Set(t, CreateFailed(t, r))
             /\ objs' = objs
    /\ UNCHANGED <<createTime, clusterState, operatorVersion, status,
                   monitored, mutex, eps, restarts, stsReplicas,
                   routerReplicas, nBootstrap, nMonitorStart>>

\* cluster.set_operator_version(DEFAULT_OPERATOR_VERSION_TAG)
OnClusterCreate_Stamp(t) ==
    /\ inv[t].kind = "create" /\ inv[t].pc = "stamp"
    /\ operatorVersion' = DEFAULT_OPERATOR_VERSION_TAG
    /\ Set(t, [inv[t] EXCEPT !.pc = "set_status",
                             !.log = Logged(t, "set_operator_version",
                                            DEFAULT_OPERATOR_VERSION_TAG, 0)])
    /\ UNCHANGED <<createTime, clusterState, objs, status, monitored, mutex,
                   eps, restarts, stsReplicas, routerReplicas, nBootstrap,
                   nMonitorStart>>

\* cluster.info(...) and cluster.set_status({PENDING, 0, now})
OnClusterCreate_SetStatus(t) ==
    /\ inv[t].kind = "create" /\ inv[t].pc = "set_status"
    /\ status' = PendingStatus
    /\ Set(t, Ended([inv[t] EXCEPT !.log = Logged(t, "set_status", "PENDING", 0)],
                    "ok", 0))
    /\ UNCHANGED <<createTime, clusterState, objs, operatorVersion, monitored,
                   mutex, eps, restarts, stsReplicas, routerReplicas,
                   nBootstrap, nMonitorStart>>

(***************************************************************************)
(* on_innodbcluster_delete                                                 *)
(***************************************************************************)
\* router_objects.update_size(cluster, size, logger): the size it leaves
UpdateSize(size) == size

\* the platform has set the deletion marker and invokes the delete handler
OnClusterDelete_Invoke(t) ==
    /\ Idle(t)
    /\ clusterState = "live"
    /\ clusterState' = "deleting"
    /\ Set(t, [IdleInv EXCEPT !.kind = "delete", !.pc = "remove_cluster"])
    /\ UNCHANGED <<createTime, objs, operatorVersion, status, monitored, mutex,
                   eps, restarts, stsReplicas, routerReplicas, nBootstrap,
                   nMonitorStart>>

\* g_group_monitor.remove_cluster(cluster)
OnClusterDelete_RemoveMonitor(t) ==
    /\ inv[t].kind = "delete" /\ inv[t].pc = "remove_cluster"
    /\ monitored' = FALSE
    /\ Set(t, [inv[t] EXCEPT !.pc = "router_size"])
    /\ UNCHANGED <<createTime, clusterState, objs, operatorVersion, status,
                   mutex, eps, restarts, stsReplicas, routerReplicas,
                   nBootstrap, nMonitorStart>>

\* router_objects.update_size(cluster, 0, logger)
OnClusterDelete_RouterSize(t) ==
    /\ inv[t].kind = "delete" /\ inv[t].pc = "router_size"
    /\ routerReplicas' = UpdateSize(0)
    /\ Set(t, [inv[t] EXCEPT !.pc = "sts",
                             !.log = Logged(t, "update_size", "router_deployment", 0)])
    /\ UNCHANGED <<createTime, clusterState, objs, operatorVersion, status,
                   monitored, mutex, eps, restarts, stsReplicas, nBootstrap,
                   nMonitorStart>>

\* sts = cluster.get_stateful_set(); if sts: replicas := 0
OnClusterDelete_Sts(t) ==
    /\ inv[t].kind = "delete" /\ inv[t].pc = "sts"
    /\ IF "stateful_set" \in objs
       THEN /\ stsReplicas' = 0
            /\ Set(t, Ended([inv[t] EXCEPT
                               !.log = Logged(t, "patch", "stateful_set.replicas", 0)],
                            "ok", 0))
       ELSE /\ stsReplicas' = stsReplicas
            /\ Set(t, Ended(inv[t], "ok", 0))
    /\ UNCHANGED <<createTime, clusterState, objs, operatorVersion, status,
                   monitored, mutex, eps, restarts, routerReplicas, nBootstrap,
                   nMonitorStart>>

(***************************************************************************)
(* The ClusterMutex                                                        *)
(***************************************************************************)
\* the first step inside the with-block of each handler that has one
Body(kind) ==
    CASE kind = "field_router_instances" -> "update_size"
      [] kind = "field_router_version" -> "update_router"
      [] kind = "field_backup_schedules" -> "update_schedules"
      [] kind = "pod_create" -> "first_pod"
      [] kind = "pod_event" -> "locked"
      [] kind = "pod_delete" -> "deleted"
      [] kind = "group_view_change" -> "hook"
      [] OTHER -> "done"

\* with ClusterMutex(cluster): the invocation waits until the mutex is free
Acquire(t) ==
    /\ inv[t].pc = "acquire"
    /\ mutex = "free"
    /\ mutex' = t
    /\ Set(t, [inv[t] EXCEPT !.pc = Body(inv[t].kind)])
    /\ UNCHANGED <<createTime, clusterState, objs, operatorVersion, status,
                   monitored, eps, restarts, stsReplicas, routerReplicas,
                   nBootstrap, nMonitorStart>>

\* Released with the mutex kept
Released_Kept(t) == mutex

\* leaving the with-block, by its end or by an exception
Released(t) == IF mutex = t THEN "free" ELSE mutex

(***************************************************************************)
(* The spec-field handlers                                                 *)
(***************************************************************************)
FieldKinds == {"field_instances", "field_version", "field_image_repository",
               "field_image_pull_policy", "field_image",
               "field_router_instances", "field_router_version",
               "field_backup_schedules"}

\* the platform invokes the handler of the changed field with (old, new);
\* valid: the spec passes parse_spec and validate
OnField_Invoke(t, kind, old, new, valid) ==
    /\ Idle(t)
    /\ clusterState = "live"
    /\ kind \in FieldKinds
    /\ Set(t, [IdleInv EXCEPT !.kind = kind, !.pc = "check", !.old = old,
                              !.new = new, !.valid = valid,
                              !.ct = createTime])
    /\ UNCHANGED <<createTime, clusterState, objs, operatorVersion, status,
                   monitored, mutex, eps, restarts, stsReplicas,
                   routerReplicas, nBootstrap, nMonitorStart>>

\* StsGate without the test of cluster.ready
StsGate_NoReadyCheck(r, next) ==
    IF ~("stateful_set" \in objs /\ r.old # r.new) THEN Ended(r, "ok", 0)
    ELSE IF ~r.valid THEN Ended(r, "error", 0)
    ELSE [r EXCEPT !.pc = next]

\* The head of the handlers of spec.instances, spec.version, spec.image,
\* spec.imageRepository and spec.imagePullPolicy:
\*   if not cluster.ready: return
\*   sts = cluster.get_stateful_set()
\*   if sts and old != new: (validate or parse the spec) ...
\* next is the first step of the guarded block.
StsGate(r, next) ==
    IF ~Ready(r.ct) THEN Ended(r, "ok", 0)
    ELSE IF ~("stateful_set" \in objs /\ r.old # r.new) THEN Ended(r, "ok", 0)
    ELSE IF ~r.valid THEN Ended(r, "error", 0)
    ELSE [r EXCEPT !.pc = next]

\* a step of a handler that changes nothing but the invocation
Local(t, r) ==
    /\ Set(t, r)
    /\ UNCHANGED <<createTime, clusterState, objs, operatorVersion, status,
                   monitored, mutex, eps, restarts, stsReplicas,
                   routerReplicas, nBootstrap, nMonitorStart>>

\* a patch of an image field (image, operator image, pull policy) of the
\* stateful set or the router deployment, then pc next
PatchImage(t, tgt, next) ==
    LET r == [inv[t] EXCEPT !.log = Logged(t, "patch", tgt, inv[t].new)]
    IN Local(t, IF next = "done" THEN Ended(r, "ok", 0) ELSE [r EXCEPT !.pc = next])

\* router_deploy = cluster.get_router_deployment(); if router_deploy: ...
RouterOrEnd(r, next) ==
    IF "router_deployment" \in objs THEN [r EXCEPT !.pc = next]
    ELSE Ended(r, "ok", 0)

\* ---- spec.instances
OnFieldInstances_Check(t) ==
    /\ inv[t].kind = "field_instances" /\ inv[t].pc = "check"
    /\ Local(t, StsGate(inv[t], "patch"))

\* ReplicasPatch with the old value for the new
ReplicasPatch_Old(old, new) == old

\* the replica count of the patch {"spec": {"replicas": new}}
ReplicasPatch(old, new) == new

\* cluster_objects.update_stateful_set_spec(sts, {"spec": {"replicas": new}})
OnFieldInstances_Patch(t) ==
    /\ inv[t].kind = "field_instances" /\ inv[t].pc = "patch"
    /\ stsReplicas' = ReplicasPatch(inv[t].old, inv[t].new)
    /\ Set(t, Ended([inv[t] EXCEPT
                       !.log = Logged(t, "patch", "stateful_set.replicas",
                                      ReplicasPatch(inv[t].old, inv[t].new))],
                    "ok", 0))
    /\ UNCHANGED <<createTime, clusterState, objs, operatorVersion, status,
                   monitored, mutex, eps, restarts, routerReplicas, nBootstrap,
                   nMonitorStart>>

\* ---- spec.version
OnFieldVersion_Check(t) ==
    /\ inv[t].kind = "field_version" /\ inv[t].pc = "check"
    /\ Local(t, StsGate(inv[t], "hook"))

\* the invocation after the call of hook name, and after the error it has
\* raised when res says it fails
Hooked(t, name, res) ==
    IF res = "ok"
    THEN [inv[t] EXCEPT !.log = Logged(t, "hook", name, inv[t].new)]
    ELSE [inv[t] EXCEPT !.log = Append(Logged(t, "hook", name, inv[t].new),
                                       Effect(t, "raised", name, inv[t].new))]

\* PreChangeHook with the error of the hook swallowed
PreChangeHook_Swallowed(t, name, res, next) ==
    Local(t, [Hooked(t, name, res) EXCEPT !.pc = next])

\* a pre-change hook of the ClusterController; res: it returns or raises.
\*   try: hook(new)
\*   except: raise
PreChangeHook(t, name, res, next) ==
    Local(t, IF res = "ok" THEN [Hooked(t, name, res) EXCEPT !.pc = next]
             ELSE Ended(Hooked(t, name, res), "error", 0))

\* cluster_ctl.on_server_version_change(new)
OnFieldVersion_Hook(t, res) ==
    /\ inv[t].kind = "field_version" /\ inv[t].pc = "hook"
    /\ PreChangeHook(t, "on_server_version_change", res, "update_sts")

\* cluster_objects.update_mysql_image(sts, ...); get_router_deployment()
OnFieldVersion_UpdateSts(t) ==
    /\ inv[t].kind = "field_version" /\ inv[t].pc = "update_sts"
    /\ Local(t, RouterOrEnd([inv[t] EXCEPT
                   !.log = Logged(t, "patch", "stateful_set.mysql_image", inv[t].new)],
                "update_router"))

\* router_objects.update_router_image(router_deploy, ...)
OnFieldVersion_UpdateRouter(t) ==
    /\ inv[t].kind = "field_version" /\ inv[t].pc = "update_router"
    /\ PatchImage(t, "router_deployment.image", "done")

\* ---- spec.imageRepository
OnFieldImageRepository_Check(t) ==
    /\ inv[t].kind = "field_image_repository" /\ inv[t].pc = "check"
    /\ Local(t, StsGate(inv[t], "update_sts"))

\* cluster_objects.update_mysql_image(sts, ...)
OnFieldImageRepository_UpdateSts(t) ==
    /\ inv[t].kind = "field_image_repository" /\ inv[t].pc = "update_sts"
    /\ PatchImage(t, "stateful_set.mysql_image", "update_operator")

\* cluster_objects.update_operator_image(sts, ...); get_router_deployment()
OnFieldImageRepository_UpdateOperator(t) ==
    /\ inv[t].kind = "field_image_repository" /\ inv[t].pc = "update_operator"
    /\ Local(t, RouterOrEnd([inv[t] EXCEPT
                   !.log = Logged(t, "patch", "stateful_set.operator_image", inv[t].new)],
                "update_router"))

OnFieldImageRepository_UpdateRouter(t) ==
    /\ inv[t].kind = "field_image_repository" /\ inv[t].pc = "update_router"
    /\ PatchImage(t, "router_deployment.image", "done")

\* ---- spec.imagePullPolicy
OnFieldImagePullPolicy_Check(t) ==
    /\ inv[t].kind = "field_image_pull_policy" /\ inv[t].pc = "check"
    /\ Local(t, StsGate(inv[t], "update_sts"))

\* cluster_objects.update_pull_policy(sts, ...); get_router_deployment()
OnFieldImagePullPolicy_UpdateSts(t) ==
    /\ inv[t].kind = "field_image_pull_policy" /\ inv[t].pc = "update_sts"
    /\ Local(t, RouterOrEnd([inv[t] EXCEPT
                   !.log = Logged(t, "patch", "stateful_set.pull_policy", inv[t].new)],
                "update_router"))

\* router_objects.update_pull_policy(router_deploy, ...)
OnFieldImagePullPolicy_UpdateRouter(t) ==
    /\ inv[t].kind = "field_image_pull_policy" /\ inv[t].pc = "update_router"
    /\ PatchImage(t, "router_deployment.pull_policy", "done")

\* ---- spec.image
OnFieldImage_Check(t) ==
    /\ inv[t].kind = "field_image" /\ inv[t].pc = "check"
    /\ Local(t, StsGate(inv[t], "hook"))

\* cluster_ctl.on_server_image_change(new)
OnFieldImage_Hook(t, res) ==
    /\ inv[t].kind = "field_image" /\ inv[t].pc = "hook"
    /\ PreChangeHook(t, "on_server_image_change", res, "update_sts")

\* cluster_objects.update_mysql_image(sts, cluster.parsed_spec)
OnFieldImage_UpdateSts(t) ==
    /\ inv[t].kind = "field_image" /\ inv[t].pc = "update_sts"
    /\ PatchImage(t, "stateful_set.mysql_image", "done")

\* ---- spec.router.instances
\* if not cluster.get_create_time(): return; then with ClusterMutex(cluster)
RouterInstancesGate(r) ==
    IF ~r.ct THEN Ended(r, "ok", 0) ELSE [r EXCEPT !.pc = "acquire"]

OnFieldRouterInstances_Check(t) ==
    /\ inv[t].kind = "field_router_instances" /\ inv[t].pc = "check"
    /\ Local(t, RouterInstancesGate(inv[t]))

\* inside the mutex: validate, then router_objects.update_size(cluster, new)
OnFieldRouterInstances_UpdateSize(t) ==
    /\ inv[t].kind = "field_router_instances" /\ inv[t].pc = "update_size"
    /\ mutex' = Released(t)
    /\ IF ~inv[t].valid
       THEN /\ Set(t, Ended(inv[t], "error", 0))
            /\ routerReplicas' = routerReplicas
       ELSE /\ Set(t, Ended([inv[t] EXCEPT
                               !.log = Logged(t, "update_size", "router_deployment",
                                              inv[t].new)],
                            "ok", 0))
            /\ routerReplicas' = UpdateSize(inv[t].new)
    /\ UNCHANGED <<createTime, clusterState, objs, operatorVersion, status,
                   monitored, eps, restarts, stsReplicas, nBootstrap,
                   nMonitorStart>>

\* ---- spec.router.version
\* if old == new: return; if not cluster.get_create_time(): return;
\* validate; then with ClusterMutex(cluster)
RouterVersionGate(r) ==
    IF r.old = r.new THEN Ended(r, "ok", 0)
    ELSE IF ~r.ct THEN Ended(r, "ok", 0)
    ELSE IF ~r.valid THEN Ended(r, "error", 0)
    ELSE [r EXCEPT !.pc = "acquire"]

OnFieldRouterVersion_Check(t) ==
    /\ inv[t].kind = "field_router_version" /\ inv[t].pc = "check"
    /\ Local(t, RouterVersionGate(inv[t]))

\* inside the mutex: get_router_deployment(); if router_deploy: update image
OnFieldRouterVersion_UpdateRouter(t) ==
    /\ inv[t].kind = "field_router_version" /\ inv[t].pc = "update_router"
    /\ mutex' = Released(t)
    /\ Set(t, Ended(IF "router_deployment" \in objs
                    THEN [inv[t] EXCEPT
                            !.log = Logged(t, "patch", "router_deployment.image",
                                           inv[t].new)]
                    ELSE inv[t],
                    "ok", 0))
    /\ UNCHANGED <<createTime, clusterState, objs, operatorVersion, status,
                   monitored, eps, restarts, stsReplicas, routerReplicas,
                   nBootstrap, nMonitorStart>>

\* ---- spec.backupSchedules
\* BackupSchedulesGate ignoring the change on a cluster without create-time
BackupSchedulesGate_Ignore(r) ==
    IF r.old = r.new THEN Ended(r, "ok", 0)
    ELSE IF ~r.ct THEN Ended(r, "ok", 0)
    ELSE IF ~r.valid THEN Ended(r, "error", 0)
    ELSE [r EXCEPT !.pc = "acquire"]

\* if old == new: return; if not cluster.get_create_time(): raise
\* TemporaryError(delay=10); validate; then with ClusterMutex(cluster)
BackupSchedulesGate(r) ==
    IF r.old = r.new THEN Ended(r, "ok", 0)
    ELSE IF ~r.ct THEN Ended(r, "temporary", DelayNotReady)
    ELSE IF ~r.valid THEN Ended(r, "error", 0)
    ELSE [r EXCEPT !.pc = "acquire"]

OnFieldBackupSchedules_Check(t) ==
    /\ inv[t].kind = "field_backup_schedules" /\ inv[t].pc = "check"
    /\ Local(t, BackupSchedulesGate(inv[t]))

\* inside the mutex: backup_objects.update_schedules(spec, old, new, logger)
OnFieldBackupSchedules_Update(t) ==
    /\ inv[t].kind = "field_backup_schedules" /\ inv[t].pc = "update_schedules"
    /\ mutex' = Released(t)
    /\ Set(t, Ended([inv[t] EXCEPT
                       !.log = Logged(t, "update_schedules", "backup_schedules",
                                      inv[t].new)],
                    "ok", 0))
    /\ UNCHANGED <<createTime, clusterState, objs, operatorVersion, status,
                   monitored, eps, restarts, stsReplicas, routerReplicas,
                   nBootstrap, nMonitorStart>>

\* the steps of the spec-field handlers
FieldStep(t) ==
    \/ OnFieldInstances_Check(t)
    \/ OnFieldInstances_Patch(t)
    \/ OnFieldVersion_Check(t)
    \/ \E res \in {"ok", "fail"} : OnFieldVersion_Hook(t, res)
    \/ OnFieldVersion_UpdateSts(t)
    \/ OnFieldVersion_UpdateRouter(t)
    \/ OnFieldImageRepository_Check(t)
    \/ OnFieldImageRepository_UpdateSts(t)
    \/ OnFieldImageRepository_UpdateOperator(t)
    \/ OnFieldImageRepository_UpdateRouter(t)
    \/ OnFieldImagePullPolicy_Check(t)
    \/ OnFieldImagePullPolicy_UpdateSts(t)
    \/ OnFieldImagePullPolicy_UpdateRouter(t)
    \/ OnFieldImage_Check(t)
    \/ \E res \in {"ok", "fail"} : OnFieldImage_Hook(t, res)
    \/ OnFieldImage_UpdateSts(t)
    \/ OnFieldRouterInstances_Check(t)
    \/ OnFieldRouterInstances_UpdateSize(t)
    \/ OnFieldRouterVersion_Check(t)
    \/ OnFieldRouterVersion_UpdateRouter(t)
    \/ OnFieldBackupSchedules_Check(t)
    \/ OnFieldBackupSchedules_Update(t)

(***************************************************************************)
(* The hooks of the ClusterController and the actions of cluster_objects   *)
(* that the pod handlers call                                              *)
(***************************************************************************)
\* counting a call, up to CountCap
Count(n) == IF n < CountCap THEN n + 1 ELSE n

\* cluster_ctl.on_pod_created(pod, logger): the pod of ordinal 0 of a cluster
\* without create-time creates the cluster: the create-time is set
CreatedHookSetsCreateTime(pod, ct) == pod = 0 /\ ~ct

\* cluster_ctl.probe_status_if_needed(pod, logger): the status it can return
ProbeResults == {"ONLINE", "UNKNOWN"}

\* the status the probe writes to the cluster
ProbedStatus(res) == IF res = "UNKNOWN" THEN UnknownStatus ELSE OnlineStatus

(***************************************************************************)
(* on_pod_create                                                           *)
(***************************************************************************)
\* the platform invokes the handler with the pod's body: pdel is
\* pod.deleting, conf the pod's "configured" readiness gate;
\* rec is the count recorded for the pod when the handler starts
OnPodCreate_Invoke(t, pod, pdel, conf) ==
    /\ Idle(t)
    /\ Set(t, [IdleInv EXCEPT !.kind = "pod_create", !.pc = "check",
                              !.pod = pod, !.pdel = pdel, !.conf = conf,
                              !.rst = restarts[pod], !.rec = eps[pod]])
    /\ UNCHANGED <<createTime, clusterState, objs, operatorVersion, status,
                   monitored, mutex, eps, restarts, stsReplicas,
                   routerReplicas, nBootstrap, nMonitorStart>>

\* PodCreateChecked without the test of the "configured" readiness gate
PodCreateChecked_NoGate(r, exists, ct) ==
    IF r.pdel THEN Ended(r, "assert", 0)
    ELSE IF ~exists THEN Ended([r EXCEPT !.cexists = FALSE], "error", 0)
    ELSE [r EXCEPT !.pc = "acquire", !.ct = ct]

\* assert not pod.deleting; the configured gate; cluster = pod.get_cluster()
\* (exists: it returns a cluster, whose create-time is ct); assert cluster
PodCreateChecked(r, exists, ct) ==
    IF r.pdel THEN Ended(r, "assert", 0)
    ELSE IF ~r.conf THEN Ended(r, "temporary", DelayNotReady)
    ELSE IF ~exists THEN Ended([r EXCEPT !.cexists = FALSE], "error", 0)
    ELSE [r EXCEPT !.pc = "acquire", !.ct = ct]

OnPodCreate_Check(t) ==
    /\ inv[t].kind = "pod_create" /\ inv[t].pc = "check"
    /\ Local(t, PodCreateChecked(inv[t], clusterState # "gone", createTime))

\* FirstPod without the test of the create-time
FirstPod_AnyCreateTime(index, ct) == index = 0

\* first_pod = pod.index == 0 and not cluster.get_create_time()
FirstPod(index, ct) == index = 0 /\ ~ct

\* if first_pod: on_first_cluster_pod_created(cluster, logger) and
\* g_group_monitor.monitor_cluster(cluster, on_group_view_change, logger)
OnPodCreate_FirstPod(t) ==
    /\ inv[t].kind = "pod_create" /\ inv[t].pc = "first_pod"
    /\ IF FirstPod(inv[t].pod, inv[t].ct)
       THEN /\ nBootstrap' = Count(nBootstrap)
            /\ nMonitorStart' = Count(nMonitorStart)
            /\ monitored' = TRUE
            /\ Set(t, [inv[t] EXCEPT
                         !.pc = "created",
                         !.log = Append(Logged(t, "bootstrap",
                                               "on_first_cluster_pod_created", 0),
                                        Effect(t, "monitor", "monitor_cluster", 0))])
       ELSE /\ Set(t, [inv[t] EXCEPT !.pc = "created"])
            /\ UNCHANGED <<nBootstrap, nMonitorStart, monitored>>
    /\ UNCHANGED <<createTime, clusterState, objs, operatorVersion, status,
                   mutex, eps, restarts, stsReplicas, routerReplicas>>

\* cluster_ctl.on_pod_created(pod, logger); then
\* g_ephemeral_pod_state.set(pod, "mysql-restarts", restarts of the body);
\* the with-block ends
OnPodCreate_Created(t) ==
    /\ inv[t].kind = "pod_create" /\ inv[t].pc = "created"
    /\ IF CreatedHookSetsCreateTime(inv[t].pod, createTime)
       THEN createTime' = TRUE /\ status' = OnlineStatus
       ELSE UNCHANGED <<createTime, status>>
    /\ eps' = [eps EXCEPT ![inv[t].pod] = inv[t].rst]
    /\ mutex' = Released(t)
    /\ Set(t, Ended([inv[t] EXCEPT
                       !.nhook = Count(inv[t].nhook),
                       !.log = Append(Logged(t, "hook", "on_pod_created", inv[t].pod),
                                      Effect(t, "set_eps", "mysql-restarts", inv[t].rst))],
                    "ok", 0))
    /\ UNCHANGED <<clusterState, objs, operatorVersion, monitored, restarts,
                   stsReplicas, routerReplicas, nBootstrap, nMonitorStart>>

(***************************************************************************)
(* on_pod_event                                                            *)
(***************************************************************************)
\* the platform invokes the handler with the pod's body: its phase, its
\* deletion marker, its membership info, whether all containers are ready,
\* and the restart counter of the mysql container
OnPodEvent_Invoke(t, pod, phase, pdel, minfo, cready) ==
    /\ Idle(t)
    /\ Set(t, [IdleInv EXCEPT !.kind = "pod_event", !.pc = "attempt",
                              !.pod = pod, !.phase = phase, !.pdel = pdel,
                              !.minfo = minfo, !.cready = cready,
                              !.rst = restarts[pod], !.rec = eps[pod]])
    /\ UNCHANGED <<createTime, clusterState, objs, operatorVersion, status,
                   monitored, mutex, eps, restarts, stsReplicas,
                   routerReplicas, nBootstrap, nMonitorStart>>

\* Filtered with no event filtered out
Filtered_Never(r) == FALSE

\* if pod.phase != "Running" or pod.deleting or not member_info: return
Filtered(r) == r.phase # "Running" \/ r.pdel \/ ~r.minfo

\* RestartEvent without the comparison with the recorded count
RestartEvent_Always(recorded, mysql_restarts) == "mysql-restarted"

\* event = "mysql-restarted" if the recorded count differs from the body's
RestartEvent(recorded, mysql_restarts) ==
    IF recorded # mysql_restarts THEN "mysql-restarted" ELSE ""

\* One pass of the loop up to the with-block: the filter, the comparison
\* with the recorded count, pod.get_cluster().  The log of an on_pod_event
\* invocation is that of its current attempt.
OnPodEvent_Attempt(t) ==
    /\ inv[t].kind = "pod_event" /\ inv[t].pc = "attempt"
    /\ LET r == [inv[t] EXCEPT !.log = <<>>] IN
       Local(t, IF Filtered(r) THEN Ended(r, "ok", 0)
                ELSE IF clusterState = "gone"
                     THEN Ended([r EXCEPT !.cexists = FALSE,
                                          !.evt = RestartEvent(eps[r.pod], r.rst)],
                                "ok", 0)
                ELSE [r EXCEPT !.pc = "acquire",
                               !.evt = RestartEvent(eps[r.pod], r.rst)])

\* NotifyRestart without the test of the containers' readiness
NotifyRestart_IgnoreReady(ready, event) == event = "mysql-restarted"

\* if ready and event == "mysql-restarted"
NotifyRestart(ready, event) == ready /\ event = "mysql-restarted"

\* inside the mutex: cluster_ctl.on_pod_restarted(pod, logger) and
\* g_ephemeral_pod_state.set(pod, "mysql-restarts", mysql_restarts)
OnPodEvent_Restarted(t) ==
    /\ inv[t].kind = "pod_event" /\ inv[t].pc = "locked"
    /\ IF NotifyRestart(inv[t].cready, inv[t].evt)
       THEN /\ eps' = [eps EXCEPT ![inv[t].pod] = inv[t].rst]
            /\ Set(t, [inv[t] EXCEPT
                         !.pc = "probe",
                         !.nhook = Count(inv[t].nhook),
                         !.log = Append(Logged(t, "hook", "on_pod_restarted", inv[t].pod),
                                        Effect(t, "set_eps", "mysql-restarts", inv[t].rst))])
       ELSE /\ eps' = eps
            /\ Set(t, [inv[t] EXCEPT !.pc = "probe"])
    /\ UNCHANGED <<createTime, clusterState, objs, operatorVersion, status,
                   monitored, mutex, restarts, stsReplicas, routerReplicas,
                   nBootstrap, nMonitorStart>>

\* OnPodEvent_Probe with the delay spent inside the with-block: the mutex is
\* kept when the probe returns UNKNOWN
OnPodEvent_Probe_SleepLocked(t, res) ==
    /\ inv[t].kind = "pod_event" /\ inv[t].pc = "probe"
    /\ res \in ProbeResults
    /\ status' = ProbedStatus(res)
    /\ mutex' = (IF res = "UNKNOWN" THEN mutex ELSE Released(t))
    /\ LET r == [inv[t] EXCEPT !.log = Logged(t, "probe", res, 0)] IN
       Set(t, IF res = "UNKNOWN"
              THEN [r EXCEPT !.pc = "sleep", !.delay = DelayUnknown]
              ELSE Ended(r, "ok", 0))
    /\ UNCHANGED <<createTime, clusterState, objs, operatorVersion, monitored,
                   eps, restarts, stsReplicas, routerReplicas, nBootstrap,
                   nMonitorStart>>

\* status = cluster_ctl.probe_status_if_needed(pod, logger); UNKNOWN raises
\* TemporaryError(delay=15), caught by the loop; otherwise break
OnPodEvent_Probe(t, res) ==
    /\ inv[t].kind = "pod_event" /\ inv[t].pc = "probe"
    /\ res \in ProbeResults
    /\ status' = ProbedStatus(res)
    /\ mutex' = Released(t)
    /\ LET r == [inv[t] EXCEPT !.log = Logged(t, "probe", res, 0)] IN
       Set(t, IF res = "UNKNOWN"
              THEN [r EXCEPT !.pc = "sleep", !.delay = DelayUnknown]
              ELSE Ended(r, "ok", 0))
    /\ UNCHANGED <<createTime, clusterState, objs, operatorVersion, monitored,
                   eps, restarts, stsReplicas, routerReplicas, nBootstrap,
                   nMonitorStart>>

\* except kopf.TemporaryError: time.sleep(e.delay); continue
OnPodEvent_Sleep(t) ==
    /\ inv[t].kind = "pod_event" /\ inv[t].pc = "sleep"
    /\ Local(t, [inv[t] EXCEPT !.pc = "attempt", !.delay = 0])

(***************************************************************************)
(* on_pod_delete                                                           *)
(***************************************************************************)
OnPodDelete_Invoke(t, pod, pdel) ==
    /\ Idle(t)
    /\ Set(t, [IdleInv EXCEPT !.kind = "pod_delete", !.pc = "check",
                              !.pod = pod, !.pdel = pdel])
    /\ UNCHANGED <<createTime, clusterState, objs, operatorVersion, status,
                   monitored, mutex, eps, restarts, stsReplicas,
                   routerReplicas, nBootstrap, nMonitorStart>>

\* assert pod.deleting; cluster = pod.get_cluster(); without a cluster:
\* pod.remove_member_finalizer(body)
OnPodDelete_Check(t) ==
    /\ inv[t].kind = "pod_delete" /\ inv[t].pc = "check"
    /\ Local(t, IF ~inv[t].pdel THEN Ended(inv[t], "assert", 0)
                ELSE IF clusterState = "gone"
                     THEN Ended([inv[t] EXCEPT
                                   !.cexists = FALSE,
                                   !.log = Logged(t, "remove_member_finalizer",
                                                  "pod", inv[t].pod)],
                                "ok", 0)
                ELSE [inv[t] EXCEPT !.pc = "acquire",
                                    !.cdel = (clusterState = "deleting")])

\* LastPod without the test of the ordinal
LastPod_AnyOrdinal(index, deleting) == deleting

\* if pod.index == 0 and cluster.deleting
LastPod(index, deleting) == index = 0 /\ deleting

\* inside the mutex: cluster_ctl.on_pod_deleted(pod, body, logger)
OnPodDelete_Deleted(t) ==
    /\ inv[t].kind = "pod_delete" /\ inv[t].pc = "deleted"
    /\ LET r == [inv[t] EXCEPT !.nhook = Count(inv[t].nhook),
                               !.log = Logged(t, "hook", "on_pod_deleted", inv[t].pod)]
       IN IF LastPod(r.pod, r.cdel)
          THEN Set(t, [r EXCEPT !.pc = "teardown"]) /\ mutex' = mutex
          ELSE Set(t, Ended(r, "ok", 0)) /\ mutex' = Released(t)
    /\ UNCHANGED <<createTime, clusterState, objs, operatorVersion, status,
                   monitored, eps, restarts, stsReplicas, routerReplicas,
                   nBootstrap, nMonitorStart>>

\* cluster_objects.on_last_cluster_pod_removed(cluster, logger): the cluster
\* resource is let go
OnPodDelete_Teardown(t) ==
    /\ inv[t].kind = "pod_delete" /\ inv[t].pc = "teardown"
    /\ clusterState' = "gone"
    /\ mutex' = Released(t)
    /\ Set(t, Ended([inv[t] EXCEPT
                       !.log = Logged(t, "teardown", "on_last_cluster_pod_removed", 0)],
                    "ok", 0))
    /\ UNCHANGED <<createTime, objs, operatorVersion, status, monitored, eps,
                   restarts, stsReplicas, routerReplicas, nBootstrap,
                   nMonitorStart>>

(***************************************************************************)
(* monitor_existing_clusters                                               *)
(***************************************************************************)
\* for cluster in cluster_api.get_all_clusters():
\*     if cluster.get_create_time(): g_group_monitor.monitor_cluster(...)
\* The cluster is listed as long as its resource exists, marked for deletion
\* or not.
MonitorExistingClusters ==
    /\ IF clusterState # "gone" /\ createTime
       THEN /\ monitored' = TRUE
            /\ nMonitorStart' = Count(nMonitorStart)
       ELSE UNCHANGED <<monitored, nMonitorStart>>
    /\ UNCHANGED <<createTime, clusterState, objs, operatorVersion, status,
                   mutex, eps, restarts, stsReplicas, routerReplicas,
                   nBootstrap, inv>>

(***************************************************************************)
(* on_group_view_change                                                    *)
(***************************************************************************)
\* the callback of the group monitor: c = ClusterController(cluster) and the
\* call of c.on_group_view_change(members, view_id_changed).  The callback
\* itself takes no mutex.
OnGroupViewChange_Invoke(t) ==
    /\ Idle(t)
    /\ Local(t, [IdleInv EXCEPT !.kind = "group_view_change", !.pc = "enter"])

\* c.on_group_view_change(members, view_id_changed) is entered: the
\* controller asks for the mutex of the cluster (locks) or works without it
OnGroupViewChange_Enter(t, locks) ==
    /\ inv[t].kind = "group_view_change" /\ inv[t].pc = "enter"
    /\ Local(t, [inv[t] EXCEPT !.pc = IF locks THEN "acquire" ELSE "hook"])

\* c.on_group_view_change(members, view_id_changed): the controller updates
\* the status of the pods and the cluster, and lets go of the mutex if it
\* has taken it
OnGroupViewChange_Hook(t) ==
    /\ inv[t].kind = "group_view_change" /\ inv[t].pc = "hook"
    /\ mutex' = Released(t)
    /\ Set(t, Ended([inv[t] EXCEPT
                       !.nhook = Count(inv[t].nhook),
                       !.log = Logged(t, "hook", "on_group_view_change", 0)],
                    "ok", 0))
    /\ UNCHANGED <<createTime, clusterState, objs, operatorVersion, status,
                   monitored, eps, restarts, stsReplicas, routerReplicas,
                   nBootstrap, nMonitorStart>>

(***************************************************************************)
(* The environment                                                         *)
(***************************************************************************)
\* the mysql container of pod p restarts
PodRestart(p) ==
    /\ restarts[p] < MaxRestarts
    /\ restarts' = [restarts EXCEPT ![p] = restarts[p] + 1]
    /\ UNCHANGED <<createTime, clusterState, objs, operatorVersion, status,
                   monitored, mutex, eps, stsReplicas, routerReplicas,
                   nBootstrap, nMonitorStart, inv>>

\* the platform runs the handlers of one pod one after another
PodFree(t, p) == \A u \in Threads \ {t} : inv[u].pod # p

\* the steps of on_pod_create
PodCreateStep(t) ==
    \/ OnPodCreate_Check(t)
    \/ OnPodCreate_FirstPod(t)
    \/ OnPodCreate_Created(t)

\* the steps of on_pod_event and on_pod_delete
PodEventStep(t) ==
    \/ OnPodEvent_Attempt(t)
    \/ OnPodEvent_Restarted(t)
    \/ \E res \in ProbeResults : OnPodEvent_Probe(t, res)
    \/ OnPodEvent_Sleep(t)

PodStep(t) ==
    \/ PodEventStep(t)
    \/ OnPodDelete_Check(t)
    \/ OnPodDelete_Deleted(t)
    \/ OnPodDelete_Teardown(t)

(***************************************************************************)
(* Initial states                                                          *)
(***************************************************************************)
\* A cluster resource that has just been submitted: nothing exists yet.
InitFresh ==
    /\ createTime = FALSE
    /\ clusterState = "live"
    /\ objs = {}
    /\ operatorVersion = NoTag
    /\ status = NoStatus
    /\ monitored = FALSE
    /\ mutex = "free"
    /\ eps = [p \in Pods |-> NoCount]
    /\ restarts = [p \in Pods |-> 0]
    /\ stsReplicas = 1
    /\ routerReplicas = 0
    /\ nBootstrap = 0
    /\ nMonitorStart = 0
    /\ inv = [t \in Threads |-> IdleInv]

\* A cluster whose create handler has completed and whose first pod is
\* not up yet: no create-time.  The router deployment, if the spec asks for
\* routers, has been made with init_only=True and has not been sized.
InitCreated ==
    /\ createTime = FALSE
    /\ clusterState = "live"
    /\ \E rtr \in 0..1 : objs = Objects \ (IF rtr > 0 THEN {} ELSE {"router_deployment"})
    /\ routerReplicas = 0
    /\ operatorVersion = DEFAULT_OPERATOR_VERSION_TAG
    /\ status = PendingStatus
    /\ monitored = FALSE
    /\ mutex = "free"
    /\ eps = [p \in Pods |-> NoCount]
    /\ restarts = [p \in Pods |-> 0]
    /\ stsReplicas = 1
    /\ nBootstrap = 0
    /\ nMonitorStart = 0
    /\ inv = [t \in Threads |-> IdleInv]

\* A cluster whose first pod has been bootstrapped: it has a create-time, its
\* dependent objects exist and its membership is monitored.
InitBootstrapped ==
    /\ createTime = TRUE
    /\ clusterState = "live"
    /\ \E rtr \in 0..1 : objs = Objects \ (IF rtr > 0 THEN {} ELSE {"router_deployment"})
                         /\ routerReplicas = rtr
    /\ operatorVersion = DEFAULT_OPERATOR_VERSION_TAG
    /\ status = OnlineStatus
    /\ monitored = TRUE
    /\ mutex = "free"
    /\ eps = [p \in Pods |-> 0]
    /\ restarts = [p \in Pods |-> 0]
    /\ stsReplicas = 1
    /\ nBootstrap = 1
    /\ nMonitorStart = 1
    /\ inv = [t \in Threads |-> IdleInv]

\* A bootstrapped cluster when the operator process has been started anew:
\* g_ephemeral_pod_state and the monitored set of g_group_monitor, which live
\* in the process, are empty; monitor_existing_clusters has not run yet.
InitRestarted ==
    /\ createTime = TRUE
    /\ clusterState = "live"
    /\ \E rtr \in 0..1 : objs = Objects \ (IF rtr > 0 THEN {} ELSE {"router_deployment"})
                         /\ routerReplicas = rtr
    /\ operatorVersion = DEFAULT_OPERATOR_VERSION_TAG
    /\ status = OnlineStatus
    /\ monitored = FALSE
    /\ mutex = "free"
    /\ eps = [p \in Pods |-> NoCount]
    /\ restarts = [p \in Pods |-> 0]
    /\ stsReplicas = 1
    /\ nBootstrap = 1
    /\ nMonitorStart = 1
    /\ inv = [t \in Threads |-> IdleInv]

\* A bootstrapped cluster that is being deleted: the delete handler has run.
InitDeleting ==
    /\ createTime = TRUE
    /\ clusterState = "deleting"
    /\ objs = Objects
    /\ operatorVersion = DEFAULT_OPERATOR_VERSION_TAG
    /\ status = OnlineStatus
    /\ monitored = FALSE
    /\ mutex = "free"
    /\ eps = [p \in Pods |-> 0]
    /\ restarts = [p \in Pods |-> 0]
    /\ stsReplicas = 0
    /\ routerReplicas = 0
    /\ nBootstrap = 1
    /\ nMonitorStart = 1
    /\ inv = [t \in Threads |-> IdleInv]

(***************************************************************************)
(* SpecCluster: the create and delete handlers of the cluster resource,    *)
(* one invocation at a time (a retry follows the failed invocation), the   *)
(* API calls failing or not.                                               *)
(***************************************************************************)
ApiOutcome == {"ok", "fail"}

NextCluster ==
    \/ \E valid \in BOOLEAN, rtr \in 0..1 : OnClusterCreate_Invoke("T1", valid, rtr)
    \/ OnClusterCreate_Parse("T1")
    \/ \E lookup \in ApiOutcome, create \in ApiOutcome :
           OnClusterCreate_Object("T1", lookup, create)
    \/ OnClusterCreate_Stamp("T1")
    \/ OnClusterCreate_SetStatus("T1")
    \/ OnClusterDelete_Invoke("T1")
    \/ OnClusterDelete_RemoveMonitor("T1")
    \/ OnClusterDelete_RouterSize("T1")
    \/ OnClusterDelete_Sts("T1")
    \/ Return("T1")

SpecCluster == (InitFresh \/ InitBootstrapped) /\ [][NextCluster]_vars

(***************************************************************************)
(* Spec: the handlers of the cluster resource's spec fields on thread T1,  *)
(* the handlers of its pods and the callback of its membership monitor on  *)
(* thread T2, interleaved.                                                 *)
(***************************************************************************)
Next ==
    \/ \E kind \in FieldKinds, new \in 0..1, valid \in BOOLEAN :
           OnField_Invoke("T1", kind, 0, new, valid)
    \/ FieldStep("T1")
    \/ \E pod \in Pods, conf \in BOOLEAN : OnPodCreate_Invoke("T2", pod, FALSE, conf)
    \/ \E pod \in Pods, minfo \in BOOLEAN, cready \in BOOLEAN :
           OnPodEvent_Invoke("T2", pod, "Running", FALSE, minfo, cready)
    \/ \E pod \in Pods : OnPodDelete_Invoke("T2", pod, TRUE)
    \/ OnGroupViewChange_Invoke("T2")
    \/ PodCreateStep("T2")
    \/ PodStep("T2")
    \/ \E locks \in BOOLEAN : OnGroupViewChange_Enter("T2", locks)
    \/ OnGroupViewChange_Hook("T2")
    \/ \E t \in Threads : Acquire(t)
    \/ \E t \in Threads : Return(t)

Spec == (InitCreated \/ InitBootstrapped \/ InitDeleting) /\ [][Next]_vars

(***************************************************************************)
(* SpecField: the spec-field handlers, one invocation at a time on thread  *)
(* T1, while on thread T2 the pod of ordinal 0 comes up (on_pod_create     *)
(* gives the cluster its create-time and holds the mutex meanwhile).       *)
(***************************************************************************)
NextField ==
    \/ \E kind \in FieldKinds, old \in Values, new \in Values, valid \in BOOLEAN :
           OnField_Invoke("T1", kind, old, new, valid)
    \/ FieldStep("T1")
    \/ OnPodCreate_Invoke("T2", 0, FALSE, TRUE)
    \/ PodCreateStep("T2")
    \/ \E t \in Threads : Acquire(t)
    \/ \E t \in Threads : Return(t)

SpecField == (InitCreated \/ InitBootstrapped) /\ [][NextField]_vars

(***************************************************************************)
(* SpecPod: on_pod_create on thread T1 and on_pod_event on thread T2, for  *)
(* all pods, the mysql containers restarting.  The platform runs the       *)
(* handlers of one pod one after another.  The operator process may have   *)
(* been started anew since the cluster was bootstrapped, and               *)
(* monitor_existing_clusters runs at any moment.                           *)
(***************************************************************************)
NextPod ==
    \/ \E pod \in Pods, pdel \in BOOLEAN, conf \in BOOLEAN :
           PodFree("T1", pod) /\ OnPodCreate_Invoke("T1", pod, pdel, conf)
    \/ \E pod \in Pods, phase \in {"Pending", "Running"},
          pdel \in BOOLEAN, minfo \in BOOLEAN, cready \in BOOLEAN :
           PodFree("T2", pod) /\ OnPodEvent_Invoke("T2", pod, phase, pdel, minfo, cready)
    \/ PodCreateStep("T1")
    \/ PodEventStep("T2")
    \/ \E t \in Threads : Acquire(t)
    \/ \E t \in Threads : Return(t)
    \/ \E p \in Pods : PodRestart(p)
    \/ MonitorExistingClusters

SpecPod == (InitCreated \/ InitBootstrapped \/ InitRestarted) /\ [][NextPod]_vars

(***************************************************************************)
(* SpecRetry: the create handler on thread T1, re-invoked by the platform  *)
(* after every failure, while on thread T2 the pod of ordinal 0 comes up   *)
(* as soon as the stateful set exists.                                     *)
(***************************************************************************)
NextRetry ==
    \/ \E valid \in BOOLEAN, rtr \in 0..1 : OnClusterCreate_Invoke("T1", valid, rtr)
    \/ OnClusterCreate_Parse("T1")
    \/ \E lookup \in ApiOutcome, create \in ApiOutcome :
           OnClusterCreate_Object("T1", lookup, create)
    \/ OnClusterCreate_Stamp("T1")
    \/ OnClusterCreate_SetStatus("T1")
    \/ \E conf \in BOOLEAN :
           "stateful_set" \in objs /\ OnPodCreate_Invoke("T2", 0, FALSE, conf)
    \/ PodCreateStep("T2")
    \/ \E t \in Threads : Acquire(t)
    \/ \E t \in Threads : Return(t)

SpecRetry == InitFresh /\ [][NextRetry]_vars

(***************************************************************************)
(* SpecDelete: the delete handler of the cluster resource on thread T1,    *)
(* the handlers of its pods on thread T2, interleaved; the cluster is      *)
(* deleted before or after its first pod has come up, and                  *)
(* monitor_existing_clusters runs at any moment.                           *)
(***************************************************************************)
NextDelete ==
    \/ OnClusterDelete_Invoke("T1")
    \/ OnClusterDelete_RemoveMonitor("T1")
    \/ OnClusterDelete_RouterSize("T1")
    \/ OnClusterDelete_Sts("T1")
    \/ \E pod \in Pods, conf \in BOOLEAN : OnPodCreate_Invoke("T2", pod, FALSE, conf)
    \/ \E pod \in Pods, phase \in {"Pending", "Running"},
          pdel \in BOOLEAN, minfo \in BOOLEAN, cready \in BOOLEAN :
           OnPodEvent_Invoke("T2", pod, phase, pdel, minfo, cready)
    \/ \E pod \in Pods, pdel \in BOOLEAN : OnPodDelete_Invoke("T2", pod, pdel)
    \/ PodCreateStep("T2")
    \/ PodStep("T2")
    \/ \E t \in Threads : Acquire(t)
    \/ \E t \in Threads : Return(t)
    \/ MonitorExistingClusters

SpecDelete == (InitCreated \/ InitBootstrapped) /\ [][NextDelete]_vars

(***************************************************************************)
(* SpecLoop: on_pod_event on thread T2, one invocation after another, the  *)
(* mysql containers restarting.  The thread keeps running: a step of the   *)
(* handler that can be taken is taken eventually.                          *)
(***************************************************************************)
NextLoop ==
    \/ \E pod \in Pods, phase \in {"Pending", "Running"},
          pdel \in BOOLEAN, minfo \in BOOLEAN, cready \in BOOLEAN :
           OnPodEvent_Invoke("T2", pod, phase, pdel, minfo, cready)
    \/ PodEventStep("T2")
    \/ Acquire("T2")
    \/ Return("T2")
    \/ \E p \in Pods : PodRestart(p)

SpecLoop ==
    /\ InitBootstrapped
    /\ [][NextLoop]_vars
    /\ WF_vars(PodEventStep("T2") \/ Acquire("T2"))

(***************************************************************************)
(* SpecEvent: on_pod_event on both threads at once, for running pods with  *)
(* membership info: several events of one pod may be in handling at the    *)
(* same time.                                                              *)
(***************************************************************************)
NextEvent ==
    \/ \E t \in Threads, pod \in Pods, cready \in BOOLEAN :
           OnPodEvent_Invoke(t, pod, "Running", FALSE, TRUE, cready)
    \/ \E t \in Threads : PodEventStep(t)
    \/ \E t \in Threads : Acquire(t)
    \/ \E t \in Threads : Return(t)
    \/ \E p \in Pods : PodRestart(p)

SpecEvent == InitBootstrapped /\ [][NextEvent]_vars

(***************************************************************************)
(* Reading an invocation's log                                             *)
(***************************************************************************)
\* the entries of log with operation op
Entries(log, op) == SelectSeq(log, LAMBDA e : e.op = op)

\* the targets of the create requests of log, in order
Created(log) == [i \in 1..Len(Entries(log, "create")) |-> Entries(log, "create")[i].tgt]

HasEntry(log, op, tgt) == \E i \in 1..Len(log) : log[i].op = op /\ log[i].tgt = tgt

IsPrefix(s, u) == Len(s) <= Len(u) /\ \A i \in 1..Len(s) : s[i] = u[i]

\* the operations that change the cluster's dependent objects or its status
MutatingOps == {"create", "set_operator_version", "set_status", "patch",
                "update_size", "update_schedules"}

(***************************************************************************)
(* Claims on the create and delete handlers                                *)
(***************************************************************************)
\* C2: every creation of a dependent object and every status write of the
\* cluster-create handler, and every scale-to-zero patch of the
\* cluster-delete handler, is made while the invocation holds the mutex.
C2_MutationsHoldMutex ==
    \A t \in Threads :
        inv[t].kind \in {"create", "delete"} =>
            \A i \in 1..Len(inv[t].log) :
                inv[t].log[i].op \in MutatingOps => inv[t].log[i].locked

\* the objects the create handler has to create for rtr router instances
Required(rtr) == Objects \ (IF rtr > 0 THEN {} ELSE {"router_deployment"})

\* C3: a create invocation that starts with every dependent object existing
\* submits no create request, and when it follows a completed invocation it
\* ends with the same status: PENDING, onlineInstances 0, the same tag.
C3_CreateIdempotent ==
    \A t \in Threads :
        LET r == inv[t] IN
        (r.kind = "create" /\ Required(r.rtr) \subseteq r.pre.objs) =>
            /\ Created(r.log) = <<>>
            /\ objs = r.pre.objs
            /\ (r.pc = "done" /\ r.pre.status = PendingStatus
                  /\ r.pre.operatorVersion = DEFAULT_OPERATOR_VERSION_TAG) =>
                    /\ status = [status |-> "PENDING", onlineInstances |-> 0]
                    /\ operatorVersion = r.pre.operatorVersion

C3_Witness ==
    \E t \in Threads :
        /\ inv[t].kind = "create" /\ inv[t].pc = "done" /\ inv[t].out = "ok"
        /\ ~inv[t].ct
        /\ Required(inv[t].rtr) \subseteq inv[t].pre.objs
        /\ inv[t].pre.status = PendingStatus
        /\ HasEntry(inv[t].log, "set_status", "PENDING")

\* the order of the create requests as the specification lists it
DocumentedOrder(rtr) ==
    <<"initconf", "private_secrets", "router_account", "service",
      "stateful_set", "disruption_budget", "router_service">>
    \o (IF rtr > 0 THEN <<"router_deployment">> ELSE <<>>)
    \o <<"backup_account">>

\* C8: on a cluster with no dependent objects the create requests of one
\* invocation follow the documented order, the router deployment being
\* created iff router instances > 0; all of them have been submitted when
\* the version is stamped, and a failed step is the invocation's last.
C8_CreateOrder ==
    \A t \in Threads :
        LET r == inv[t] IN
        (r.kind = "create" /\ r.pre.objs = {}) =>
            /\ IsPrefix(Created(r.log), DocumentedOrder(r.rtr))
            /\ r.pc \in {"stamp", "set_status"} =>
                   Created(r.log) = DocumentedOrder(r.rtr)
            /\ (r.pc = "done" /\ r.out = "ok" /\ ~r.ct) =>
                   /\ Created(r.log) = DocumentedOrder(r.rtr)
                   /\ ("router_deployment" \in objs) <=> (r.rtr > 0)
            /\ HasEntry(r.log, "warn", "CreateResourceFailed") =>
                   /\ r.pc = "done"
                   /\ r.log[Len(r.log)].op = "warn"
                   /\ objs = {Created(r.log)[i] : i \in 1..Len(Created(r.log))}

C8_Witness ==
    \E t \in Threads :
        /\ inv[t].kind = "create" /\ inv[t].pc = "done" /\ inv[t].out = "ok"
        /\ inv[t].pre.objs = {} /\ inv[t].rtr = 0
        /\ Len(Created(inv[t].log)) = 8

\* C9: an invalid spec: an InvalidArgument error diagnostic and a
\* TemporaryError, and nothing else: no object created, no tag, no status.
C9_InvalidSpec ==
    \A t \in Threads :
        LET r == inv[t] IN
        (r.kind = "create" /\ ~r.valid /\ r.pc # "parse") =>
            /\ r.pc = "done" /\ r.out = "temporary"
            /\ r.log = <<[op |-> "error", tgt |-> "InvalidArgument", val |-> 0,
                          locked |-> FALSE]>>
            /\ objs = r.pre.objs
            /\ operatorVersion = r.pre.operatorVersion
            /\ status = r.pre.status

C9_Witness ==
    \E t \in Threads :
        /\ inv[t].kind = "create" /\ ~inv[t].valid /\ inv[t].pc = "done"
        /\ ~inv[t].ct /\ inv[t].pre.objs # {}

\* C10: a failed creation step: a CreateResourceFailed warning and the error
\* re-raised, no tag and no status in that invocation; the invocation that
\* sets PENDING is one whose every step succeeded.
C10_CreateFailure ==
    \A t \in Threads :
        LET r == inv[t] IN
        r.kind = "create" =>
            /\ r.out = "error" =>
                   /\ r.pc = "done"
                   /\ r.log[Len(r.log)] = [op |-> "warn", tgt |-> "CreateResourceFailed",
                                           val |-> 0, locked |-> FALSE]
                   /\ Len(Entries(r.log, "warn")) = 1
            /\ HasEntry(r.log, "warn", "CreateResourceFailed") =>
                   /\ r.pc = "done" /\ r.out = "error"
                   /\ Entries(r.log, "set_operator_version") = <<>>
                   /\ Entries(r.log, "set_status") = <<>>
                   /\ operatorVersion = r.pre.operatorVersion
                   /\ status = r.pre.status
            /\ HasEntry(r.log, "set_status", "PENDING") =>
                   /\ status = [status |-> "PENDING", onlineInstances |-> 0]
                   /\ operatorVersion = DEFAULT_OPERATOR_VERSION_TAG
                   /\ Required(r.rtr) \subseteq objs
                   /\ r.out = "ok"

C10_Witness ==
    \E t \in Threads :
        /\ inv[t].kind = "create" /\ inv[t].out = "error"
        /\ Len(Created(inv[t].log)) = 4
        /\ status = NoStatus /\ operatorVersion = NoTag

(***************************************************************************)
(* Claims on the interleaving of the handlers                              *)
(***************************************************************************)
\* the invocation is about to make, or is making, a ClusterController hook
\* call or a patch of the stateful set, the router deployment or the backup
\* schedules
InMutatingSection(t) ==
    \/ /\ inv[t].kind \in FieldKinds
       /\ inv[t].pc \in {"patch", "hook", "update_sts", "update_operator",
                         "update_router", "update_size", "update_schedules"}
    \/ inv[t].kind = "pod_create" /\ inv[t].pc = "created"
    \/ /\ inv[t].kind = "pod_event" /\ inv[t].pc = "locked"
       /\ NotifyRestart(inv[t].cready, inv[t].evt)
    \/ inv[t].kind = "pod_delete" /\ inv[t].pc = "deleted"
    \/ inv[t].kind = "group_view_change" /\ inv[t].pc = "hook"

\* C1: for the cluster, at most one invocation of the pod handlers, the
\* spec-field handlers and the membership callback is inside its mutating
\* section at a time.
C1_MutualExclusion ==
    Cardinality({t \in Threads : InMutatingSection(t)}) <= 1

(***************************************************************************)
(* Claims on the spec-field handlers                                       *)
(***************************************************************************)
\* C4: a spec-field handler invoked on a cluster without create-time makes
\* no mutation of the stateful set, the router deployment or the backup
\* schedules, calls no pre-change hook and does not take the mutex.
C4_ReadinessGating ==
    \A t \in Threads :
        (inv[t].kind \in FieldKinds /\ ~inv[t].ct) =>
            /\ inv[t].log = <<>>
            /\ inv[t].pc \in {"check", "done"}
            /\ mutex # t

C4_Witness ==
    \E t \in Threads :
        /\ inv[t].kind = "field_version" /\ ~inv[t].ct /\ inv[t].pc = "done"
        /\ inv[t].old # inv[t].new /\ inv[t].valid
        /\ "stateful_set" \in objs
        /\ createTime

\* what an effect is, whoever held the mutex
What(e) == [op |-> e.op, tgt |-> e.tgt, val |-> e.val]

\* C6: on a cluster with create-time and a stateful set, a spec.instances
\* change from old to new # old (the spec validating) makes exactly one
\* patch of the stateful set, replicas := new; a spec.router.instances
\* change to new makes one router deployment size update to new.
C6_ScalePropagation ==
    \A t \in Threads :
        LET r == inv[t] IN
        (r.pc = "done" /\ r.ct /\ r.valid) =>
            /\ (r.kind = "field_instances" /\ "stateful_set" \in objs
                  /\ r.old # r.new) =>
                   /\ Len(r.log) = 1
                   /\ What(r.log[1]) = [op |-> "patch", tgt |-> "stateful_set.replicas",
                                        val |-> r.new]
                   /\ stsReplicas = r.new
                   /\ r.out = "ok"
            /\ r.kind = "field_router_instances" =>
                   /\ Len(r.log) = 1
                   /\ What(r.log[1]) = [op |-> "update_size", tgt |-> "router_deployment",
                                        val |-> r.new]
                   /\ routerReplicas = r.new
                   /\ r.out = "ok"

C6_Witness ==
    \E t \in Threads :
        /\ inv[t].kind = "field_instances" /\ inv[t].pc = "done" /\ inv[t].ct
        /\ inv[t].old = 0 /\ inv[t].new = 2
        /\ stsReplicas = 2
        /\ Len(inv[t].log) = 1

(***************************************************************************)
(* Claims on the pod handlers                                              *)
(***************************************************************************)
\* the event passes the filter and the pod's cluster is found
Handled(r) ==
    r.phase = "Running" /\ ~r.pdel /\ r.minfo /\ r.cexists

\* C5: for a running, non-deleting pod with membership info and all
\* containers ready whose recorded restart count is N, an event showing
\* N + 1 calls on_pod_restarted exactly once, over all attempts of the
\* handler, and records N + 1; an event showing the recorded count calls it
\* zero times.
C5_RestartDetection ==
    \A t \in Threads :
        LET r == inv[t] IN
        (r.kind = "pod_event" /\ r.pc = "done" /\ Handled(r) /\ r.cready
           /\ r.rec # NoCount) =>
            /\ r.rst = r.rec + 1 => (r.nhook = 1 /\ eps[r.pod] = r.rec + 1)
            /\ r.rst = r.rec => (r.nhook = 0 /\ eps[r.pod] = r.rec)

\* an event showing N + 1 has been handled in two attempts or more
C5_Witness ==
    \E t \in Threads :
        /\ inv[t].kind = "pod_event" /\ inv[t].pc = "done" /\ Handled(inv[t])
        /\ inv[t].cready
        /\ inv[t].rec = 0 /\ inv[t].rst = 1
        /\ inv[t].nhook = 1
        /\ ~HasEntry(inv[t].log, "hook", "on_pod_restarted")

\* C7: the first-pod bootstrap actions run and the monitor is started at
\* most once for the cluster, in the on_pod_create invocation for the
\* configured pod of ordinal 0 that finds the cluster without create-time
\* and in no other; every invocation for a configured pod calls on_pod_created
\* once, and no other does.  The monitor_cluster calls of on_pod_create are
\* those of its bootstraps; monitor_existing_clusters makes its own calls,
\* which nMonitorStart counts too.
C7_BootstrapOnce ==
    /\ nBootstrap <= 1
    /\ nMonitorStart >= nBootstrap
    /\ createTime => nBootstrap = 1
    /\ \A t \in Threads :
         LET r == inv[t] IN
         r.kind = "pod_create" =>
            /\ r.pc \in {"created", "done"} =>
                 /\ HasEntry(r.log, "bootstrap", "on_first_cluster_pod_created")
                      <=> (r.conf /\ ~r.pdel /\ r.cexists /\ r.pod = 0 /\ ~r.ct)
                 /\ HasEntry(r.log, "monitor", "monitor_cluster")
                      <=> HasEntry(r.log, "bootstrap", "on_first_cluster_pod_created")
                 /\ HasEntry(r.log, "bootstrap", "on_first_cluster_pod_created")
                      => (nBootstrap = 1 /\ monitored)
            /\ r.pc = "done" =>
                 /\ (r.conf /\ ~r.pdel /\ r.cexists)
                      <=> HasEntry(r.log, "hook", "on_pod_created")
                 /\ r.nhook = (IF r.conf /\ ~r.pdel /\ r.cexists THEN 1 ELSE 0)

C7_Witness ==
    \E t \in Threads :
        /\ inv[t].kind = "pod_create" /\ inv[t].pod = 0 /\ inv[t].pc = "done"
        /\ ~inv[t].ct
        /\ HasEntry(inv[t].log, "bootstrap", "on_first_cluster_pod_created")
        /\ HasEntry(inv[t].log, "hook", "on_pod_created")
        /\ createTime /\ nBootstrap = 1 /\ nMonitorStart = 1

(***************************************************************************)
(* Claims on the retry of the create handler                               *)
(***************************************************************************)
\* C11: when an invocation of the create handler completes without error,
\* every required dependent object exists (the router deployment when the
\* router instances are > 0), whatever failed before and however the pod
\* handlers interleave.
C11_RetryConverges ==
    \A t \in Threads :
        (inv[t].kind = "create" /\ inv[t].pc = "done" /\ inv[t].out = "ok") =>
            Required(inv[t].rtr) \subseteq objs

(***************************************************************************)
(* Claims on on_pod_create for an unconfigured pod                         *)
(***************************************************************************)
\* C12: on_pod_create for a pod whose "configured" gate is not set has no
\* effect: it never asks for the mutex, runs no bootstrap action, starts no
\* monitor, calls no hook and leaves the pod's recorded restart count as it
\* was; for a pod that is not being deleted it ends with a TemporaryError of
\* delay 10.  on_pod_created is called for configured pods only.
C12_UnconfiguredPod ==
    \A t \in Threads :
        LET r == inv[t] IN
        r.kind = "pod_create" =>
            /\ ~r.conf =>
                 /\ r.pc \in {"check", "done"}
                 /\ mutex # t
                 /\ r.log = <<>>
                 /\ r.nhook = 0
                 /\ eps[r.pod] = r.rec
                 /\ (r.pc = "done" /\ ~r.pdel) =>
                        (r.out = "temporary" /\ r.delay = DelayNotReady)
            /\ HasEntry(r.log, "hook", "on_pod_created") => r.conf

C12_Witness ==
    \E t \in Threads :
        /\ inv[t].kind = "pod_create" /\ inv[t].pc = "done"
        /\ ~inv[t].conf /\ ~inv[t].pdel /\ inv[t].pod = 0
        /\ inv[t].out = "temporary"
        /\ ~createTime /\ nBootstrap = 0 /\ ~monitored

(***************************************************************************)
(* Claims on the backup schedules                                          *)
(***************************************************************************)
\* C13: on a cluster without create-time the handler of spec.backupSchedules
\* (old # new) ends with a TemporaryError of delay 10 and updates nothing,
\* where every other spec-field handler returns normally; an invocation on
\* a cluster with create-time (the spec validating) makes the one update of
\* the schedules, to new, holding the mutex.
C13_BackupSchedules ==
    \A t \in Threads :
        LET r == inv[t] IN
        /\ (r.kind = "field_backup_schedules" /\ r.old # r.new /\ ~r.ct) =>
              /\ r.pc \in {"check", "done"}
              /\ r.log = <<>>
              /\ mutex # t
              /\ r.pc = "done" => (r.out = "temporary" /\ r.delay = DelayNotReady)
        /\ (r.kind \in FieldKinds \ {"field_backup_schedules"} /\ ~r.ct
              /\ r.pc = "done") =>
              (r.out = "ok" /\ r.log = <<>>)
        /\ (r.kind = "field_backup_schedules" /\ r.old # r.new /\ r.ct /\ r.valid
              /\ r.pc = "done") =>
              /\ r.out = "ok"
              /\ r.log = <<[op |-> "update_schedules", tgt |-> "backup_schedules",
                            val |-> r.new, locked |-> TRUE]>>
              /\ mutex # t

\* the update is made on a cluster that got its create-time in this behaviour
C13_Witness ==
    \E t \in Threads :
        /\ inv[t].kind = "field_backup_schedules" /\ inv[t].pc = "done"
        /\ inv[t].ct /\ inv[t].old = 1 /\ inv[t].new = 2
        /\ HasEntry(inv[t].log, "update_schedules", "backup_schedules")
        /\ eps[1] = NoCount /\ createTime

(***************************************************************************)
(* Claims on the pre-change hooks                                          *)
(***************************************************************************)
\* the pre-change hook of a handler
PreChangeHookOf(kind) ==
    IF kind = "field_version" THEN "on_server_version_change"
    ELSE "on_server_image_change"

\* C14: in the handlers of spec.version and spec.image, on a ready cluster
\* with a stateful set and old # new, the pre-change hook is the first
\* thing done, before any patch of the stateful set or the router
\* deployment; when the hook raises, the handler ends with that error and
\* has patched nothing.
C14_PreChangeHook ==
    \A t \in Threads :
        LET r == inv[t]
            hook == [op |-> "hook", tgt |-> PreChangeHookOf(r.kind), val |-> r.new]
        IN
        r.kind \in {"field_version", "field_image"} =>
            /\ Entries(r.log, "patch") # <<>> =>
                   (What(r.log[1]) = hook /\ r.log[2].op = "patch")
            /\ r.pc \in {"update_sts", "update_router"} => What(r.log[1]) = hook
            /\ (r.pc = "done" /\ Ready(r.ct) /\ "stateful_set" \in objs
                  /\ r.old # r.new /\ r.valid) =>
                   What(r.log[1]) = hook
            /\ HasEntry(r.log, "raised", PreChangeHookOf(r.kind)) =>
                   /\ r.pc = "done" /\ r.out = "error"
                   /\ Entries(r.log, "patch") = <<>>
                   /\ Len(r.log) = 2

C14_Witness ==
    \E t \in Threads :
        /\ inv[t].kind = "field_version" /\ inv[t].pc = "done"
        /\ HasEntry(inv[t].log, "raised", "on_server_version_change")
        /\ inv[t].out = "error"
        /\ "router_deployment" \in objs

(***************************************************************************)
(* Claims on the deletion of pods and of the cluster                       *)
(***************************************************************************)
\* C15: on_pod_delete for a pod with its deletion marker: without an owning
\* cluster the pod's finalizer is removed, the mutex is not asked for and
\* no hook is called; with a cluster, on_pod_deleted is called holding the
\* mutex, and the last-pod teardown runs iff the pod has ordinal 0 and the
\* cluster is being deleted, after the hook and before the mutex is let go.
\* A pod without deletion marker: the assertion fails before any effect.
C15_PodDelete ==
    \A t \in Threads :
        LET r == inv[t]
            hook == [op |-> "hook", tgt |-> "on_pod_deleted", val |-> r.pod,
                     locked |-> TRUE]
            teardown == [op |-> "teardown", tgt |-> "on_last_cluster_pod_removed",
                         val |-> 0, locked |-> TRUE]
        IN
        r.kind = "pod_delete" =>
            /\ ~r.pdel =>
                 /\ r.pc \in {"check", "done"} /\ r.log = <<>> /\ mutex # t
                 /\ r.pc = "done" => r.out = "assert"
            /\ (r.pdel /\ ~r.cexists) =>
                 /\ r.pc = "done" /\ r.out = "ok" /\ mutex # t /\ r.nhook = 0
                 /\ r.log = <<[op |-> "remove_member_finalizer", tgt |-> "pod",
                               val |-> r.pod, locked |-> FALSE]>>
            /\ r.pc = "teardown" =>
                 (mutex = t /\ r.log = <<hook>> /\ LastPod(r.pod, r.cdel))
            /\ (r.pdel /\ r.cexists /\ r.pc = "done") =>
                 /\ r.out = "ok" /\ r.nhook = 1 /\ mutex # t
                 /\ r.log = (IF r.pod = 0 /\ r.cdel THEN <<hook, teardown>>
                             ELSE <<hook>>)

C15_Witness ==
    \E t \in Threads :
        /\ inv[t].kind = "pod_delete" /\ inv[t].pc = "done"
        /\ inv[t].pod = 0 /\ inv[t].cdel
        /\ HasEntry(inv[t].log, "teardown", "on_last_cluster_pod_removed")
        /\ clusterState = "gone"

\* the delete handler of the cluster has run
ClusterDeleteHasRun ==
    /\ clusterState # "live"
    /\ \A t \in Threads : inv[t].kind = "delete" => inv[t].pc = "done"

\* C16: once the delete handler of the cluster has run, the cluster is not
\* in the monitored set of the group monitor, in any later state.
C16_MonitorStops == ClusterDeleteHasRun => ~monitored

(***************************************************************************)
(* Claims on the holding of the mutex                                      *)
(***************************************************************************)
\* the steps of each handler that stand inside its with-block
LockedSteps(kind) ==
    CASE kind = "field_router_instances" -> {"update_size"}
      [] kind = "field_router_version" -> {"update_router"}
      [] kind = "field_backup_schedules" -> {"update_schedules"}
      [] kind = "pod_create" -> {"first_pod", "created"}
      [] kind = "pod_event" -> {"locked", "probe"}
      [] kind = "pod_delete" -> {"deleted", "teardown"}
      [] kind = "group_view_change" -> {"hook"}
      [] OTHER -> {}

\* C17: an invocation holds the mutex inside its with-block only: it never
\* asks for the mutex while holding it, and it does not hold it once it has
\* ended (by return, early return or exception) or while it sleeps before
\* a retry; so the holder of the mutex is always a running invocation.
C17_MutexReleased ==
    /\ \A t \in Threads :
         /\ inv[t].pc \in {"idle", "done", "sleep"} => mutex # t
         /\ inv[t].pc = "acquire" => mutex # t
         /\ mutex = t => inv[t].pc \in LockedSteps(inv[t].kind)
    /\ mutex \in Threads \/ mutex = "free"

\* the validation of line 358 has failed inside the with-block
C17_Witness ==
    \E t \in Threads :
        /\ inv[t].kind = "field_router_instances" /\ inv[t].pc = "done"
        /\ inv[t].out = "error" /\ inv[t].ct
        /\ mutex = "free"

(***************************************************************************)
(* Claims on the retry loop of on_pod_event                                *)
(***************************************************************************)
\* C18: every invocation of on_pod_event ends: its loop makes finitely
\* many attempts, whatever the probe returns.
C18_RetryLoopEnds ==
    \A t \in Threads : (inv[t].kind = "pod_event") ~> (inv[t].pc = "done")

(***************************************************************************)
(* Claims on the notification of restarts                                  *)
(***************************************************************************)
\* C19: on_pod_event calls on_pod_restarted only when all containers are
\* ready and the restart counter of the event is greater than a count that
\* was recorded for the pod: never for a pod without recorded count, never
\* for a counter lower than or equal to the recorded count.
C19_HookOnlyOnIncrease ==
    \A t \in Threads :
        LET r == inv[t] IN
        (r.kind = "pod_event" /\ HasEntry(r.log, "hook", "on_pod_restarted")) =>
            /\ r.cready
            /\ r.rec # NoCount
            /\ r.rst > r.rec

\* C20: for one pod and one value of its restart counter on_pod_restarted
\* is called at most once: not twice by one invocation, and not by two
\* invocations that handle events of the pod showing the same counter.
C20_AtMostOnce ==
    /\ \A t \in Threads : inv[t].kind = "pod_event" => inv[t].nhook <= 1
    /\ \A t, u \in Threads :
         (t # u /\ inv[t].kind = "pod_event" /\ inv[u].kind = "pod_event"
            /\ inv[t].pod = inv[u].pod /\ inv[t].rst = inv[u].rst) =>
             ~(inv[t].nhook >= 1 /\ inv[u].nhook >= 1)

(***************************************************************************)
(* Claims on the attempts of on_pod_event                                  *)
(***************************************************************************)
\* C21: an attempt of on_pod_event that is not filtered out and finds the
\* pod's cluster probes the status exactly once, as the last thing done
\* holding the mutex, after the on_pod_restarted call if there is one; a
\* probe of UNKNOWN leads to the delay of 15 and a new attempt; the handler
\* raises nothing, and it returns only when the event is filtered out, the
\* cluster is missing or the probe has not returned UNKNOWN.
C21_ProbeOncePerAttempt ==
    \A t \in Threads :
        LET r == inv[t]
            last == r.log[Len(r.log)]
        IN
        r.kind = "pod_event" =>
            /\ r.out \in {"none", "ok"}
            /\ r.pc = "done" => r.out = "ok"
            /\ r.pc \in {"locked", "probe"} =>
                 (Handled(r) /\ mutex = t /\ Entries(r.log, "probe") = <<>>)
            /\ (r.pc \in {"sleep", "done"} /\ Handled(r)) =>
                 /\ Len(Entries(r.log, "probe")) = 1
                 /\ last.op = "probe" /\ last.locked
                 /\ \A i \in 1..Len(r.log) : r.log[i].locked
                 /\ (r.pc = "sleep") <=> (last.tgt = "UNKNOWN")
            /\ r.pc = "sleep" => (Handled(r) /\ r.delay = DelayUnknown)
            /\ (r.pc = "done" /\ ~Handled(r)) => r.log = <<>>

\* a second attempt has ended the handler, the hook having been called in
\* the first
C21_Witness ==
    \E t \in Threads :
        /\ inv[t].kind = "pod_event" /\ inv[t].pc = "done" /\ Handled(inv[t])
        /\ inv[t].nhook = 1
        /\ inv[t].log = <<[op |-> "probe", tgt |-> "ONLINE", val |-> 0,
                           locked |-> TRUE]>>
        /\ clusterState = "deleting"

\* C22: on_pod_event does not hold the mutex while it waits out the delay
\* after an UNKNOWN probe: it holds it from the acquisition of an attempt to
\* that attempt's probe only, and a handler that waits for the mutex during
\* the delay can take it.
C22_NoMutexDuringDelay ==
    \A t \in Threads :
        inv[t].kind = "pod_event" =>
            /\ inv[t].pc \in {"sleep", "attempt", "acquire"} => mutex # t
            /\ mutex = t => inv[t].pc \in {"locked", "probe"}
            /\ \A u \in Threads \ {t} :
                 (inv[t].pc = "sleep" /\ inv[u].pc = "acquire") => ENABLED Acquire(u)

\* on_pod_create holds the mutex while on_pod_event sleeps
C22_Witness ==
    \E t, u \in Threads :
        /\ inv[t].kind = "pod_event" /\ inv[t].pc = "sleep"
        /\ inv[t].delay = DelayUnknown
        /\ inv[u].kind = "pod_create" /\ inv[u].pc = "created"
        /\ mutex = u

(***************************************************************************)
(* Claims on the status of the cluster                                     *)
(***************************************************************************)
\* C23: once the cluster has a create-time, no step sets its status to
\* PENDING with onlineInstances 0 again.
C23_NoRegressionToPending ==
    [][(createTime /\ status # PendingStatus) => status' # PendingStatus]_vars

\* C24: a restart seen while the pod is not ready is not lost.  on_pod_event
\* changes the restart count recorded for its pod only in an attempt in which
\* it has called on_pod_restarted, and it calls it only for an event with all
\* containers ready; so an event that shows a changed counter while not all
\* containers are ready leaves the recorded count as it was.  An event that
\* reaches the with-block with all containers ready and a counter that
\* differs from the recorded one calls on_pod_restarted once and records the
\* counter.
C24_RestartNotLost ==
    \A t \in Threads :
        LET r == inv[t] IN
        r.kind = "pod_event" =>
            /\ r.nhook = 0 => eps[r.pod] = r.rec
            /\ r.nhook > 0 =>
                 (r.cready /\ r.rec # r.rst /\ eps[r.pod] = r.rst)
            /\ (~r.cready /\ r.rec # r.rst) =>
                 (r.nhook = 0 /\ eps[r.pod] = r.rec /\ eps[r.pod] # r.rst)
            /\ (r.pc \in {"probe", "sleep", "done"} /\ Handled(r)
                  /\ r.cready /\ r.rec # r.rst) =>
                 (r.nhook = 1 /\ eps[r.pod] = r.rst)

\* an event of a running pod with a restart not yet recorded and a container
\* not ready has been handled: the recorded count is still the old one
C24_Witness ==
    \E t \in Threads :
        /\ inv[t].kind = "pod_event" /\ inv[t].pc = "done"
        /\ Handled(inv[t]) /\ ~inv[t].cready
        /\ inv[t].rst = 1 /\ inv[t].rec = 0
        /\ eps[inv[t].pod] = 0 /\ inv[t].nhook = 0
        /\ restarts[inv[t].pod] = 1

====
